---- MODULE Spec2Model ----
(***************************************************************************)
(* A model of main.py: the FastAPI service that answers                    *)
(* GET /status/{bundle_id} by signing a JWT for the account bound to the   *)
(* bundle id and calling App Store Connect twice through one shared        *)
(* requests.Session that retries with urllib3's Retry.                     *)
(*                                                                         *)
(* Text is a sequence of atoms, so that an f-string is a concatenation and *)
(* "detail contains x" is a sub-sequence search.  A bundle id is the       *)
(* sequence of its dot-separated labels.  The source's Chinese literals    *)
(* are written as ASCII glosses.                                           *)
(***************************************************************************)
EXTENDS Integers, Sequences, FiniteSets, TLC

\* ------------------------------------------------------------------ bounds
NumReqs == 2
MaxClock == 1
MaxTokens == 2

Reqs == 1..NumReqs

\* ------------------------------------------------------------------- text
Contains(text, part) ==
  \E i \in 1..(Len(text) - Len(part) + 1) : SubSeq(text, i, i + Len(part) - 1) = part

StartsWith(text, part) ==
  Len(part) <= Len(text) /\ SubSeq(text, 1, Len(part)) = part

RECURSIVE join(_, _)
join(sep, items) ==
  IF items = <<>> THEN <<>>
  ELSE IF Len(items) = 1 THEN Head(items)
  ELSE Head(items) \o sep \o join(sep, Tail(items))

\* --------------------------------------------------- results of a function
Ok(v) == [ok |-> TRUE, val |-> v]
Raise(type, msg) == [ok |-> FALSE, exc |-> [type |-> type, msg |-> msg]]
HTTPException(status_code, detail) ==
  [type |-> "HTTPException", status_code |-> status_code, detail |-> detail]

\* --------------------------------------------------------- configuration
Opalive == <<"com", "opalive", "ios">>
Lami == <<"com", "lami", "ios">>

APP_CONFIGS ==
  (Opalive :> [name |-> "4part", key_id |-> "6UTNX28TTA",
               issuer_id |-> "54b0385b-4752-4e0f-b50e-e2873b621c62",
               private_key |-> "ACCOUNT1"])
  @@
  (Lami :> [name |-> "Nova Live", key_id |-> "8S8K59Y236",
            issuer_id |-> "bfd37f46-f3ac-4364-a30e-c4ee9975b4cf",
            private_key |-> "ACCOUNT2"])

\* APP_CONFIGS.keys(), in insertion order
APP_CONFIGS_keys == <<Opalive, Lami>>

Accounts == {"ACCOUNT1", "ACCOUNT2"}

\* What os.getenv("PRIVATE_KEY_<account>", "") can hold at startup: nothing,
\* a PEM key of the account, or text that is no EC private key.
Pem(account) == IF account = "ACCOUNT1" THEN "PEM-ACCOUNT1" ELSE "PEM-ACCOUNT2"
Malformed == "not-a-pem-key"
KeyValues(account) == {"", Pem(account), Malformed}
KeyEnvs ==
  {[a \in Accounts |-> IF a = "ACCOUNT1" THEN k1 ELSE k2] :
     k1 \in KeyValues("ACCOUNT1"), k2 \in KeyValues("ACCOUNT2")}

\* The shared session at import time: requests' default headers, no
\* Authorization among them.
session0 == [headers |-> [Accept |-> "*/*"]]

\* Retry(total=2, backoff_factor=1, status_forcelist=[502, 503, 504]) with
\* urllib3's defaults for what the call leaves unset.
retries ==
  [total |-> 2, status_forcelist |-> {502, 503, 504},
   respect_retry_after_header |-> TRUE, raise_on_status |-> TRUE,
   RETRY_AFTER_STATUS_CODES |-> {413, 429, 503}]

\* --------------------------------------------------------- tool functions
get_app_config_prefix(bundle_id) ==
  LET hits == {k \in DOMAIN APP_CONFIGS : StartsWith(bundle_id, k)} IN
  IF hits = {}
  THEN Raise("ValueError", <<"Unconfigured Bundle ID: ">> \o bundle_id)
  ELSE Ok(APP_CONFIGS[CHOOSE k \in hits : TRUE])

get_app_config(bundle_id) ==
  IF bundle_id \in DOMAIN APP_CONFIGS
  THEN Ok(APP_CONFIGS[bundle_id])
  ELSE Raise("ValueError", <<"Unconfigured Bundle ID: ">> \o bundle_id)

get_private_key_default(keys, key_name) ==
  IF key_name \in DOMAIN keys /\ keys[key_name] # ""
  THEN Ok(keys[key_name])
  ELSE Ok(Pem("ACCOUNT1"))

get_private_key(keys, key_name) ==
  IF key_name \in DOMAIN keys /\ keys[key_name] # ""
  THEN Ok(keys[key_name])
  ELSE Raise("ValueError",
             <<"private key ", key_name,
               " is not configured or empty, check PRIVATE_KEY_", key_name>>)

\* jwt.encode(..., algorithm="ES256") accepts only an EC private key.
IsEcKey(private_key) == \E a \in Accounts : private_key = Pem(a)

\* t1 and t2 are the two readings of int(time.time()); sig stands for the
\* ES256 signature, which is made with a fresh random nonce on every call.
generate_token(key_id, issuer_id, private_key, t1, t2, sig) ==
  IF IsEcKey(private_key)
  THEN Ok([iss |-> issuer_id, iat |-> t1, exp |-> t2 + 900,
           aud |-> "appstoreconnect-v1", kid |-> key_id,
           key |-> private_key, sig |-> sig])
  ELSE Raise("RuntimeError", <<"JWT generation failed: ", "could not parse key">>)

\* response.json() raises on a body that is not JSON; every JSON body of
\* the model is an object.
get_apple_error_detail(response) ==
  IF ~response.is_json THEN response.text
  ELSE LET data == response.json
           errors == IF "errors" \in DOMAIN data THEN data.errors ELSE <<>>
       IN IF errors # <<>>
          THEN (IF "detail" \in DOMAIN errors[1] THEN errors[1].detail
                ELSE response.text)
          ELSE response.text

\* ------------------------------------------------------ upstream answers
\* A body: its raw text and, when it parses, its JSON object.
JsonBody(text, json) == [is_json |-> TRUE, text |-> text, json |-> json]
HtmlBody == [is_json |-> FALSE, text |-> "<html>upstream</html>", json |-> [none |-> TRUE]]

ErrDetailBody ==
  JsonBody("{errors:[{status,detail}]}",
           [errors |-> << [status |-> "401", detail |-> "Authentication credentials are missing or invalid"] >>])
ErrNoDetailBody ==
  JsonBody("{errors:[{status,code}]}", [errors |-> << [status |-> "403", code |-> "FORBIDDEN"] >>])
ErrEmptyBody == JsonBody("{errors:[]}", [errors |-> << >>])
LinksBody == JsonBody("{links:{}}", [links |-> "self"])
ErrorBodies == {HtmlBody, ErrDetailBody, ErrNoDetailBody, ErrEmptyBody, LinksBody}

AppItem == [id |-> "1001", attributes |-> [name |-> "4part"]]
AppItemNoId == [type |-> "apps", attributes |-> [name |-> "4part"]]
AppsOkBody == JsonBody("{data:[app]}", [data |-> <<AppItem>>])
AppsEmptyBody == JsonBody("{data:[]}", [data |-> << >>])
AppsNoIdBody == JsonBody("{data:[app-without-id]}", [data |-> <<AppItemNoId>>])

\* The eleven codes the status-label table of the design lists, one code no
\* table knows, and JSON null.
ListedStates ==
  {"READY_FOR_SALE", "IN_REVIEW", "WAITING_FOR_REVIEW", "PENDING_DEVELOPER_RELEASE",
   "REJECTED", "PREPARE_FOR_SUBMISSION", "PENDING_APPLE_RELEASE", "DEVELOPER_REJECTED",
   "METADATA_REJECTED", "REMOVED_FROM_SALE", "INVALID_BINARY"}
JsonNull == "<null>"
UpstreamStates == ListedStates \cup {"SOME_NEW_STATE", JsonNull}

VersionAttrs(state) ==
  [appStoreState |-> state, versionString |-> "2.1.0", platform |-> "IOS",
   createdDate |-> "2024-05-01T00:00:00Z"]
BareAttrs == [copyright |-> "2024"]
VersionItem(attrs) == [id |-> "v1", attributes |-> attrs]
\* Two versions, so that "the first element" is a choice.
VersionsBody(state) ==
  JsonBody("{data:[version,version]}",
           [data |-> <<VersionItem(VersionAttrs(state)),
                       VersionItem(VersionAttrs("REPLACED_WITH_NEW_VERSION"))>>])
VersionsBareBody == JsonBody("{data:[version-without-state]}", [data |-> <<VersionItem(BareAttrs)>>])
VersionBodies == {VersionsBody(s) : s \in UpstreamStates} \cup {VersionsBareBody}

DataBodies == {AppsOkBody, AppsEmptyBody, AppsNoIdBody} \cup VersionBodies

Response(status_code, retry_after, body) ==
  [kind |-> "response", status_code |-> status_code, retry_after |-> retry_after,
   is_json |-> body.is_json, text |-> body.text, json |-> body.json]
\* One attempt ends with a response or with a transport failure (the 15 s
\* timeout, a refused or reset connection).
TransportFailure == [kind |-> "timeout"]
\* A 200 with any of the data bodies or with no usable JSON; a 404, 429, 500
\* or 503 with any of the error bodies, with and without a Retry-After header.
ErrorStatuses == {404, 429, 500, 503}
Outcomes ==
  {TransportFailure}
  \cup {Response(200, FALSE, b) : b \in DataBodies \cup {HtmlBody, LinksBody}}
  \cup {Response(s, ra, b) : s \in ErrorStatuses, ra \in BOOLEAN, b \in ErrorBodies}
LeanAppsOutcomes == {TransportFailure, Response(200, FALSE, AppsOkBody)}
LeanVersionsOutcomes == {TransportFailure, Response(200, FALSE, VersionsBody("IN_REVIEW"))}

\* What the attempt history keeps of an outcome.
Tag(out) ==
  IF out.kind = "response"
  THEN [kind |-> "response", status_code |-> out.status_code]
  ELSE [kind |-> out.kind]

\* ------------------------------------------------------- urllib3's Retry
\* Retry.is_retry for GET, with `total` the retries left.
is_retry(total, status_code, has_retry_after) ==
  \/ status_code \in retries.status_forcelist
  \/ /\ total # 0
     /\ retries.respect_retry_after_header
     /\ has_retry_after
     /\ status_code \in retries.RETRY_AFTER_STATUS_CODES

\* Retry.increment leaves total - 1 and is exhausted below zero.
retry_total(prior) == retries.total - prior

\* What one attempt means for session.get, after `prior` failed attempts:
\* "retry", "return" the response, or "raise" (retries exhausted).
send(prior, out) ==
  LET total == retry_total(prior) IN
  IF out.kind # "response"
  THEN (IF total - 1 < 0 THEN "raise" ELSE "retry")
  ELSE IF is_retry(total, out.status_code, out.retry_after)
       THEN (IF total - 1 < 0
             THEN (IF retries.raise_on_status THEN "raise" ELSE "return")
             ELSE "retry")
       ELSE "return"

\* The exception requests raises when the retries are exhausted.
exhausted(out) ==
  IF out.kind = "response"
  THEN [type |-> "RetryError",
        msg |-> <<"Max retries exceeded ", "(Caused by ResponseError(too many error responses))">>]
  ELSE [type |-> "ConnectionError",
        msg |-> <<"Max retries exceeded ", "(Caused by ReadTimeoutError)">>]

\* ----------------------------------------------------- the handler's ends
status_map ==
  [s \in {"READY_FOR_SALE", "IN_REVIEW", "WAITING_FOR_REVIEW", "PENDING_DEVELOPER_RELEASE",
          "REJECTED", "PREPARE_FOR_SUBMISSION", "DEVELOPER_REJECTED", "REMOVED_FROM_SALE",
          "METADATA_REJECTED"} |->
     CASE s = "READY_FOR_SALE" -> "label: on sale"
       [] s = "IN_REVIEW" -> "label: in review"
       [] s = "WAITING_FOR_REVIEW" -> "label: waiting for review"
       [] s = "PENDING_DEVELOPER_RELEASE" -> "label: pending developer release"
       [] s = "REJECTED" -> "label: rejected"
       [] s = "PREPARE_FOR_SUBMISSION" -> "label: prepare for submission"
       [] s = "DEVELOPER_REJECTED" -> "label: withdrawn by developer"
       [] s = "REMOVED_FROM_SALE" -> "label: removed from sale"
       [] s = "METADATA_REJECTED" -> "label: metadata rejected"]

get(d, k, default) == IF k \in DOMAIN d THEN d[k] ELSE default

status_label(state) == get(status_map, state, state)

\* except HTTPException: raise / except Exception: raise HTTPException(500)
handler_except(exc) ==
  IF exc.type = "HTTPException" THEN exc
  ELSE HTTPException(500, <<"Internal server error: ">> \o exc.msg)

\* @app.exception_handler(Exception)
universal_exception_handler(exc) ==
  [status_code |-> 500,
   body |-> [success |-> FALSE,
             detail |-> IF exc.type = "HTTPException" THEN exc.detail ELSE exc.msg]]

\* An HTTPException that leaves the handler is answered by FastAPI's own
\* handler for HTTPException, not by the handler registered for Exception.
http_exception_handler(exc) ==
  [status_code |-> exc.status_code, body |-> [detail |-> exc.detail]]

\* response_model=AppStatusResponse: every declared str field must be a str.
serialize_response(content) ==
  IF \A f \in {"app_name", "bundle_id", "version", "status", "status_cn", "platform",
               "created_date"} : content[f] # JsonNull
  THEN Ok([status_code |-> 200, body |-> content])
  ELSE Raise("ResponseValidationError", <<"response validation failed: ", "string type expected">>)

\* What the client of GET /status/{bundle_id} receives when the handler
\* ends with `result` (Ok(dict) or a raised exception).
respond(result) ==
  IF result.ok
  THEN LET served == serialize_response(result.val) IN
       IF served.ok THEN served.val ELSE universal_exception_handler(served.exc)
  ELSE LET exc == handler_except(result.exc) IN
       IF exc.type = "HTTPException" THEN http_exception_handler(exc)
       ELSE universal_exception_handler(exc)


\* ------------------------------------------------------------------ state
VARIABLES
  PRIVATE_KEYS,  \* the key of each account, loaded from the environment at import
  now,           \* int(time.time()), counted from the start of the process
  nonce,         \* how many signatures have been made
  session,       \* the one requests.Session all requests share
  pc,            \* per request: "idle", "apps", "versions" or "done"
  bundle_id,     \* per request: the path parameter
  token,         \* per request: the local variable token
  app,           \* per request: app_id and app_name, once step 4 has set them
  stages,        \* per request: the steps of the handler reached so far, in order
  hist,          \* per request: the attempts of the upstream call in progress (or last made)
  app_req,       \* per request: the response session.get returned in step 4
  ver_req,       \* per request: the response session.get returned in step 5
  sent,          \* per request: what its upstream attempts carried on the wire
  resp,          \* per request: the HTTP response the client receives
  fault          \* per request: the raise site that ended it ("none": it returned)

vars == <<PRIVATE_KEYS, now, nonce, session, pc, bundle_id, token, app, stages, hist,
          app_req, ver_req, sent, resp, fault>>

NoBundle == <<>>
NoToken == [none |-> TRUE]
NoApp == [none |-> TRUE]
NoResp == [none |-> TRUE]
NoResponse == [kind |-> "none"]

LeanKeyEnvs ==
  {[a \in Accounts |-> Pem(a)],
   [a \in Accounts |-> IF a = "ACCOUNT1" THEN Pem(a) ELSE ""]}

BundleIds ==
  {Opalive, Lami, <<"com", "opalive">>, <<"com", "opalive", "ios", "beta">>,
   <<"COM", "LAMI", "IOS">>, <<"com", "unknown", "app">>}
LeanBundleIds == {Opalive, Lami}

Init ==
  /\ PRIVATE_KEYS \in KeyEnvs
  /\ now = 0
  /\ nonce = 0
  /\ session = session0
  /\ pc = [r \in Reqs |-> "idle"]
  /\ bundle_id = [r \in Reqs |-> NoBundle]
  /\ token = [r \in Reqs |-> NoToken]
  /\ app = [r \in Reqs |-> NoApp]
  /\ stages = [r \in Reqs |-> <<>>]
  /\ hist = [r \in Reqs |-> <<>>]
  /\ app_req = [r \in Reqs |-> NoResponse]
  /\ ver_req = [r \in Reqs |-> NoResponse]
  /\ sent = [r \in Reqs |-> {}]
  /\ resp = [r \in Reqs |-> NoResp]
  /\ fault = [r \in Reqs |-> "none"]

\* ------------------------------------------------------- the handler's steps
\* headers = {"Authorization": f"Bearer {token}", "Content-Type": ...}
headers(tok) == [Authorization |-> tok, ContentType |-> "application/json"]

\* requests sends the session's headers overridden by the call's own, and
\* leaves the session's headers as they were.
wire_headers(session_headers, call_headers) == call_headers @@ session_headers

session_after_get_sticky(s, call_headers) ==
  [s EXCEPT !.headers = call_headers @@ s.headers]

session_after_get(s, call_headers) == s

\* The handler of request r ends: the client gets respond(result).
End(r, result, site) ==
  /\ pc' = [pc EXCEPT ![r] = "done"]
  /\ resp' = [resp EXCEPT ![r] = respond(result)]
  /\ fault' = [fault EXCEPT ![r] = site]

\* Steps 1 to 3 (and the headers): no I/O, so one step.  A request takes the
\* first free slot; which slot it takes makes no difference to it.
Begin(r, b, t2) ==
  /\ pc[r] = "idle"
  /\ \A q \in Reqs : q < r => pc[q] # "idle"
  /\ nonce < MaxTokens
  /\ t2 \in {now, now + 1} /\ t2 <= MaxClock
  /\ bundle_id' = [bundle_id EXCEPT ![r] = b]
  /\ UNCHANGED <<PRIVATE_KEYS, session, app, hist, app_req, ver_req, sent>>
  /\ LET config == get_app_config(b) IN
     IF ~config.ok
     THEN /\ End(r, [ok |-> FALSE,
                     exc |-> HTTPException(404,
                               config.exc.msg \o <<". Supported Bundle ID: ">>
                               \o join(<<", ">>, APP_CONFIGS_keys))],
                 "route_not_found")
          /\ stages' = [stages EXCEPT ![r] = <<"get_app_config">>]
          /\ UNCHANGED <<now, nonce, token>>
     ELSE
     LET private_key == get_private_key(PRIVATE_KEYS, config.val.private_key) IN
     IF ~private_key.ok
     THEN /\ End(r, [ok |-> FALSE,
                     exc |-> HTTPException(500,
                               <<"Configuration error: ">> \o private_key.exc.msg)],
                 "configuration_error")
          /\ stages' = [stages EXCEPT ![r] = <<"get_app_config", "get_private_key">>]
          /\ UNCHANGED <<now, nonce, token>>
     ELSE
     LET tok == generate_token(config.val.key_id, config.val.issuer_id,
                               private_key.val, now, t2, nonce + 1) IN
     /\ stages' = [stages EXCEPT ![r] =
                     <<"get_app_config", "get_private_key", "generate_token">>]
     /\ now' = t2
     /\ IF ~tok.ok
        THEN /\ End(r, tok, "signing_error")
             /\ UNCHANGED <<nonce, token>>
        ELSE /\ token' = [token EXCEPT ![r] = tok.val]
             /\ nonce' = nonce + 1
             /\ pc' = [pc EXCEPT ![r] = "apps"]
             /\ UNCHANGED <<resp, fault>>

\* One attempt of session.get on behalf of request r.
Attempt(r, call, url) ==
  LET h == headers(token[r]) IN
  /\ sent' = [sent EXCEPT ![r] = @ \cup
               {[call |-> call, url |-> url,
                 Authorization |-> wire_headers(session.headers, h).Authorization]}]
  /\ session' = session_after_get(session, h)
  /\ stages' = [stages EXCEPT ![r] = IF hist[r] = <<>> THEN Append(@, call) ELSE @]

\* `if not x` on a list.
never_falsy(list) == FALSE

falsy(list) == list = <<>>

\* Lines 196-212: what the handler does with the response of step 4.
after_apps(response, b) ==
  IF response.status_code # 200
  THEN [site |-> "upstream_status",
        result |-> [ok |-> FALSE,
                    exc |-> HTTPException(response.status_code,
                              <<"Failed to find App: ", get_apple_error_detail(response)>>)]]
  ELSE IF ~response.is_json
  THEN [site |-> "internal", result |-> Raise("JSONDecodeError", <<"Expecting value">>)]
  ELSE LET apps_data == get(response.json, "data", <<>>) IN
  IF falsy(apps_data)
  THEN [site |-> "upstream_not_found",
        result |-> [ok |-> FALSE,
                    exc |-> HTTPException(404, <<"Bundle ID not found at Apple: ">> \o b)]]
  ELSE IF Len(apps_data) = 0
  THEN [site |-> "internal", result |-> Raise("IndexError", <<"list index out of range">>)]
  ELSE IF "id" \notin DOMAIN apps_data[1]
  THEN [site |-> "internal", result |-> Raise("KeyError", <<"'id'">>)]
  ELSE IF "attributes" \notin DOMAIN apps_data[1]
  THEN [site |-> "internal", result |-> Raise("KeyError", <<"'attributes'">>)]
  ELSE IF "name" \notin DOMAIN apps_data[1].attributes
  THEN [site |-> "internal", result |-> Raise("KeyError", <<"'name'">>)]
  ELSE [site |-> "none",
        result |-> Ok([id |-> apps_data[1].id, name |-> apps_data[1].attributes.name])]

\* Step 4: GET /v1/apps?filter[bundleId]=...
AppsAttempt(r, out) ==
  /\ pc[r] = "apps"
  /\ Attempt(r, "apps", <<"apps">>)
  /\ UNCHANGED <<PRIVATE_KEYS, now, nonce, bundle_id, token, ver_req>>
  /\ LET verdict == send(Len(hist[r]), out) IN
     /\ hist' = [hist EXCEPT ![r] =
                   IF verdict = "return" /\ after_apps(out, bundle_id[r]).result.ok
                   THEN <<>> ELSE Append(@, Tag(out))]
     /\ app_req' = [app_req EXCEPT ![r] = IF verdict = "return" THEN out ELSE @]
     /\ CASE verdict = "retry" -> UNCHANGED <<pc, app, resp, fault>>
          [] verdict = "raise" ->
               /\ End(r, [ok |-> FALSE, exc |-> exhausted(out)],
                      IF out.kind = "response" THEN "retries_exhausted" ELSE "transport")
               /\ UNCHANGED app
          [] verdict = "return" ->
               LET step == after_apps(out, bundle_id[r]) IN
               IF step.result.ok
               THEN /\ app' = [app EXCEPT ![r] = step.result.val]
                    /\ pc' = [pc EXCEPT ![r] = "versions"]
                    /\ UNCHANGED <<resp, fault>>
               ELSE /\ End(r, step.result, step.site)
                    /\ UNCHANGED app

\* Lines 218-259: what the handler does with the response of step 5.
after_versions(response, b, config, app_name) ==
  IF response.status_code # 200
  THEN [site |-> "upstream_status",
        result |-> [ok |-> FALSE,
                    exc |-> HTTPException(response.status_code,
                              <<"Failed to get versions: ", get_apple_error_detail(response)>>)]]
  ELSE IF ~response.is_json
  THEN [site |-> "internal", result |-> Raise("JSONDecodeError", <<"Expecting value">>)]
  ELSE LET versions_list == get(response.json, "data", <<>>) IN
  IF falsy(versions_list)
  THEN [site |-> "upstream_not_found",
        result |-> [ok |-> FALSE,
                    exc |-> HTTPException(404, <<"The App has no version yet">>)]]
  ELSE IF Len(versions_list) = 0
  THEN [site |-> "internal", result |-> Raise("IndexError", <<"list index out of range">>)]
  ELSE IF "attributes" \notin DOMAIN versions_list[1]
  THEN [site |-> "internal", result |-> Raise("KeyError", <<"'attributes'">>)]
  ELSE LET latest_version == versions_list[1].attributes
           state == get(latest_version, "appStoreState", "UNKNOWN")
       IN [site |-> "none",
           result |-> Ok([app_name |-> app_name,
                          bundle_id |-> b,
                          version |-> get(latest_version, "versionString", "N/A"),
                          status |-> state,
                          status_cn |-> status_label(state),
                          platform |-> get(latest_version, "platform", "IOS"),
                          created_date |-> get(latest_version, "createdDate", ""),
                          account_name |-> config.name])]

\* Step 5: GET /v1/apps/{app_id}/appStoreVersions
VersionsAttempt(r, out) ==
  /\ pc[r] = "versions"
  /\ Attempt(r, "versions", <<"apps", app[r].id, "appStoreVersions">>)
  /\ UNCHANGED <<PRIVATE_KEYS, now, nonce, bundle_id, token, app, app_req>>
  /\ hist' = [hist EXCEPT ![r] = Append(@, Tag(out))]
  /\ LET verdict == send(Len(hist[r]), out) IN
     /\ ver_req' = [ver_req EXCEPT ![r] = IF verdict = "return" THEN out ELSE @]
     /\ CASE verdict = "retry" -> UNCHANGED <<pc, resp, fault>>
       [] verdict = "raise" ->
            End(r, [ok |-> FALSE, exc |-> exhausted(out)],
                IF out.kind = "response" THEN "retries_exhausted" ELSE "transport")
       [] verdict = "return" ->
            LET step == after_versions(out, bundle_id[r], APP_CONFIGS[bundle_id[r]],
                                       app[r].name) IN
            End(r, step.result, step.site)

\* The response has gone out: the request is over and its locals are gone.
Deliver(r) ==
  /\ pc[r] = "done"
  /\ pc' = [pc EXCEPT ![r] = "idle"]
  /\ bundle_id' = [bundle_id EXCEPT ![r] = NoBundle]
  /\ token' = [token EXCEPT ![r] = NoToken]
  /\ app' = [app EXCEPT ![r] = NoApp]
  /\ stages' = [stages EXCEPT ![r] = <<>>]
  /\ hist' = [hist EXCEPT ![r] = <<>>]
  /\ app_req' = [app_req EXCEPT ![r] = NoResponse]
  /\ ver_req' = [ver_req EXCEPT ![r] = NoResponse]
  /\ sent' = [sent EXCEPT ![r] = {}]
  /\ resp' = [resp EXCEPT ![r] = NoResp]
  /\ fault' = [fault EXCEPT ![r] = "none"]
  /\ UNCHANGED <<PRIVATE_KEYS, now, nonce, session>>

\* A second passes.
Tick ==
  /\ now < MaxClock
  /\ now' = now + 1
  /\ UNCHANGED <<PRIVATE_KEYS, nonce, session, pc, bundle_id, token, app, stages, hist,
                 app_req, ver_req, sent, resp, fault>>

\* ---------------------------------------------------------- specifications
\* The handler is an async def that never awaits, so the event loop runs one
\* request to its end before it starts the next.
Serve(r, b, t2) ==
  /\ \A q \in Reqs : pc[q] = "idle"
  /\ Begin(r, b, t2)

Next ==
  \/ \E r \in Reqs, b \in BundleIds, t2 \in 0..MaxClock : Serve(r, b, t2)
  \/ \E r \in Reqs, out \in Outcomes : AppsAttempt(r, out)
  \/ \E r \in Reqs, out \in Outcomes : VersionsAttempt(r, out)
  \/ \E r \in Reqs : Deliver(r)
  \/ Tick

Spec == Init /\ [][Next]_vars

\* Requests interleaved at every upstream attempt (what a handler that
\* awaited its I/O, or ran in a thread pool, would allow), on fewer inputs.
NextConc ==
  \/ \E r \in Reqs, b \in LeanBundleIds : Begin(r, b, now)
  \/ \E r \in Reqs, out \in LeanAppsOutcomes : AppsAttempt(r, out)
  \/ \E r \in Reqs, out \in LeanVersionsOutcomes : VersionsAttempt(r, out)
  \/ Tick

InitConc == Init /\ PRIVATE_KEYS \in LeanKeyEnvs

SpecConc == InitConc /\ [][NextConc]_vars

\* One request after the other, as in Spec, on the inputs of SpecConc; a
\* finished request keeps its locals until its response has gone out.
ServeNext(r, b, t2) ==
  /\ \A q \in Reqs : pc[q] \in {"idle", "done"}
  /\ Begin(r, b, t2)

NextSeq ==
  \/ \E r \in Reqs, b \in LeanBundleIds, t2 \in 0..MaxClock : ServeNext(r, b, t2)
  \/ \E r \in Reqs, out \in LeanAppsOutcomes : AppsAttempt(r, out)
  \/ \E r \in Reqs, out \in LeanVersionsOutcomes : VersionsAttempt(r, out)
  \/ \E r \in Reqs : Deliver(r)
  \/ Tick

SpecSeq == InitConc /\ [][NextSeq]_vars

TypeOK ==
  /\ PRIVATE_KEYS \in KeyEnvs
  /\ now \in 0..MaxClock
  /\ nonce \in 0..MaxTokens
  /\ \A r \in Reqs :
       /\ pc[r] \in {"idle", "apps", "versions", "done"}
       /\ pc[r] = "idle" <=> bundle_id[r] = NoBundle
       /\ pc[r] = "done" <=> resp[r] # NoResp
       /\ Len(hist[r]) <= retries.total + 1

\* ------------------------------------------------------------------ claims
Range(seq) == {seq[i] : i \in 1..Len(seq)}
IsPrefix(s, t) == Len(s) <= Len(t) /\ SubSeq(t, 1, Len(s)) = s
Order == <<"get_app_config", "get_private_key", "generate_token", "apps", "versions">>
Registered(b) == b \in DOMAIN APP_CONFIGS
Issued(r) == token[r] # NoToken
\* The last attempt of the call request r made last.
LastAttempt(r) == hist[r][Len(hist[r])]
\* A 200 whose JSON has no element under "data".
EmptyResult(response) ==
  /\ response.kind = "response"
  /\ response.status_code = 200
  /\ response.is_json
  /\ get(response.json, "data", <<>>) = <<>>

\* C1: a request for a bundle id that is not exactly a key of APP_CONFIGS (a
\* prefix of a key, a key with one more label, a key in other case, an
\* unknown id) ends with 404 and a detail that contains every registered
\* bundle id; it issues no token and makes no upstream call.
C1_UnregisteredIs404 ==
  \A r \in Reqs :
    (pc[r] # "idle" /\ ~Registered(bundle_id[r])) =>
      /\ pc[r] = "done"
      /\ resp[r].status_code = 404
      /\ \A k \in DOMAIN APP_CONFIGS : Contains(resp[r].body.detail, k)
      /\ ~Issued(r)
      /\ sent[r] = {} /\ hist[r] = <<>>
      /\ app_req[r] = NoResponse /\ ver_req[r] = NoResponse
      /\ stages[r] = <<"get_app_config">>

C1_Witness ==
  \E r \in Reqs :
    /\ pc[r] = "done"
    /\ bundle_id[r] = <<"com", "opalive", "ios", "beta">>
    /\ resp[r].status_code = 404

\* C2 (as claimed): when every attempt of an upstream call fails at
\* transport level, the request ends with 502 after exactly three attempts
\* of that call, and no upstream call follows.
C2_TransportFailureIs502 ==
  \A r \in Reqs :
    (pc[r] = "done" /\ hist[r] # <<>> /\ \A i \in 1..Len(hist[r]) : hist[r][i].kind = "timeout") =>
      /\ resp[r].status_code = 502
      /\ Len(hist[r]) = retries.total + 1
      /\ (app_req[r] = NoResponse => "versions" \notin Range(stages[r]))

Retried(r, i) == i < Len(hist[r]) \/ (i = Len(hist[r]) /\ pc[r] \in {"apps", "versions"})

\* C3 (as claimed): within one upstream call at most two attempts are
\* retried, every retried attempt was answered 502, 503 or 504 (or failed at
\* transport level), and an attempt answered with a 4xx is never retried.
C3_RetryOnlyOnForcelist ==
  \A r \in Reqs :
    /\ Len(hist[r]) <= retries.total + 1
    /\ \A i \in 1..Len(hist[r]) :
         (Retried(r, i) /\ hist[r][i].kind = "response") =>
           /\ hist[r][i].status_code \in {502, 503, 504}
           /\ ~(hist[r][i].status_code \in 400..499)

IsEnvelope(body) == DOMAIN body = {"success", "detail"} /\ body.success = FALSE

\* C4 (as claimed): every request that fails ends with a body of the shape
\* {success: false, detail: <text>}.
C4_UniformEnvelope ==
  \A r \in Reqs :
    (pc[r] = "done" /\ resp[r].status_code # 200) => IsEnvelope(resp[r].body)

WellFormedError(response) ==
  /\ response.is_json
  /\ "errors" \in DOMAIN response.json
  /\ response.json.errors # <<>>
  /\ "detail" \in DOMAIN response.json.errors[1]
ExpectedDetail(response) ==
  IF WellFormedError(response) THEN response.json.errors[1].detail ELSE response.text
\* The response session.get returned for the call made last, if it returned.
LastResponse(r) == IF "versions" \in Range(stages[r]) THEN ver_req[r] ELSE app_req[r]

\* C5 (as claimed): when the last outcome of an upstream call is a response
\* with a status S other than 2xx, returned or left after the retries are
\* exhausted, the request ends with status S; and when the response was
\* returned, the detail contains errors[0].detail of a well-formed error
\* body and the raw body text otherwise.
C5_UpstreamStatusPassedThrough ==
  \A r \in Reqs :
    (/\ pc[r] = "done" /\ hist[r] # <<>>
     /\ LastAttempt(r).kind = "response"
     /\ LastAttempt(r).status_code \notin 200..299) =>
      /\ resp[r].status_code = LastAttempt(r).status_code
      /\ LastResponse(r) # NoResponse =>
           Contains(resp[r].body.detail, <<ExpectedDetail(LastResponse(r))>>)

\* C6 (as claimed): a successful result carries the appStoreState of the
\* first version as its status; for each of the eleven listed codes the
\* label is a label of the table (not the code handed through), and for any
\* other code the label is the code itself.
C6_LabelForEveryListedCode ==
  \A r \in Reqs :
    (pc[r] = "done" /\ resp[r].status_code = 200) =>
      LET latest == ver_req[r].json.data[1].attributes
          body == resp[r].body
      IN /\ "appStoreState" \in DOMAIN latest => body.status = latest.appStoreState
         /\ body.status \in ListedStates => body.status_cn # body.status
         /\ body.status \notin ListedStates => body.status_cn = body.status

\* C7: a 200 with an empty result set ends the request with 404: an empty
\* apps result without step 5 being made, and an empty versions result.
C7_EmptyResultIs404 ==
  \A r \in Reqs :
    /\ EmptyResult(app_req[r]) =>
         /\ pc[r] = "done"
         /\ resp[r].status_code = 404
         /\ "versions" \notin Range(stages[r])
         /\ ver_req[r] = NoResponse
         /\ \A m \in sent[r] : m.call = "apps"
    /\ EmptyResult(ver_req[r]) =>
         /\ pc[r] = "done"
         /\ resp[r].status_code = 404

C7_Witness ==
  \E r \in Reqs :
    /\ pc[r] = "done"
    /\ app_req[r].kind = "response"
    /\ app_req[r].status_code = 200
    /\ app_req[r].is_json
    /\ app_req[r].json = [data |-> << >>]

C7_WitnessVersions ==
  \E r \in Reqs : pc[r] = "done" /\ EmptyResult(ver_req[r]) /\ "data" \in DOMAIN ver_req[r].json

\* C8: the steps of a request run in the order route lookup, credential
\* lookup, token issue, apps call, versions call, each only after the one
\* before it succeeded; a request whose account has no (or an empty) key
\* ends with 500 as a configuration error after the credential lookup, with
\* no key put in its place, no token issued and no upstream call made.
C8_StagesInOrder ==
  \A r \in Reqs :
    /\ IsPrefix(stages[r], Order)
    /\ Issued(r) => Len(stages[r]) >= 3
    /\ sent[r] # {} => Issued(r) /\ Len(stages[r]) >= 4
    /\ app_req[r] # NoResponse => "apps" \in Range(stages[r])
    /\ "versions" \in Range(stages[r]) =>
         /\ app_req[r].kind = "response" /\ app_req[r].status_code = 200
         /\ app[r] # NoApp
    /\ (\E m \in sent[r] : m.call = "versions") <=> "versions" \in Range(stages[r])
    /\ ver_req[r] # NoResponse => "versions" \in Range(stages[r])
    /\ (pc[r] # "idle" /\ Registered(bundle_id[r])) =>
         LET key_name == APP_CONFIGS[bundle_id[r]].private_key IN
         /\ PRIVATE_KEYS[key_name] = "" =>
              /\ pc[r] = "done"
              /\ resp[r].status_code = 500
              /\ StartsWith(resp[r].body.detail, <<"Configuration error: ">>)
              /\ stages[r] = SubSeq(Order, 1, 2)
              /\ ~Issued(r) /\ sent[r] = {} /\ hist[r] = <<>>
         /\ PRIVATE_KEYS[key_name] = Malformed =>
              /\ pc[r] = "done"
              /\ resp[r].status_code = 500
              /\ stages[r] = SubSeq(Order, 1, 3)
              /\ ~Issued(r) /\ sent[r] = {} /\ hist[r] = <<>>

C8_Witness ==
  \E r \in Reqs :
    /\ pc[r] = "done"
    /\ bundle_id[r] = Lami
    /\ PRIVATE_KEYS["ACCOUNT2"] = ""
    /\ resp[r].status_code = 500

SameCredential(t, u) == t.kid = u.kid /\ t.iss = u.iss /\ t.key = u.key

\* C9 (as claimed): two tokens issued with the same credential have
\* different issued_at values, so they are not identical, and every token
\* has expires_at - issued_at between 900 and 1200 seconds.
C9_IssuedAtDiffers ==
  /\ \A r \in Reqs : Issued(r) => (token[r].exp - token[r].iat) \in 900..1200
  /\ \A r, q \in Reqs :
       (r # q /\ Issued(r) /\ Issued(q) /\ SameCredential(token[r], token[q])) =>
         /\ token[r].iat # token[q].iat
         /\ token[r] # token[q]

\* C10: every upstream attempt of a request carries the token issued in
\* that request, made from the key id, issuer id and private key bound to
\* the request's bundle id; the shared session never holds a token; and no
\* attempt of one request carries the token of another.
C10_OwnTokenOnEveryCall ==
  /\ "Authorization" \notin DOMAIN session.headers
  /\ \A r \in Reqs :
       /\ Issued(r) =>
            LET config == APP_CONFIGS[bundle_id[r]] IN
            /\ token[r].kid = config.key_id
            /\ token[r].iss = config.issuer_id
            /\ token[r].key = PRIVATE_KEYS[config.private_key]
       /\ \A m \in sent[r] : Issued(r) /\ m.Authorization = token[r]
       /\ \A q \in Reqs \ {r} : \A m \in sent[r] : m.Authorization # token[q]

C10_Witness ==
  \E r, q \in Reqs :
    /\ r # q
    /\ pc[r] = "versions" /\ pc[q] = "apps"
    /\ hist[r] # <<>> /\ hist[q] # <<>>
    /\ bundle_id[r] = bundle_id[q]

====
